---- MODULE Spec2Model ----
(***************************************************************************)
(* Model of client/src/services/socket.js: the live trade feed service.    *)
(*                                                                         *)
(* The service owns a WebSocket handle, a reconnect timer with a growing   *)
(* delay, a clock offset learnt from the welcome frame, the trade buffer   *)
(* and the history fetcher.  Every handler of the source is one action.    *)
(*                                                                         *)
(* A trade is the tuple <<exchange, timestamp>>: the source only ever      *)
(* reads and writes position 1 (0-based) of a trade tuple, the timestamp,  *)
(* which is position 2 here.                                               *)
(*                                                                         *)
(* reconnectionDelay is a rational number num/den: the source multiplies   *)
(* it by 1.1, which is modelled exactly (floating-point rounding of the    *)
(* product is not modelled).                                               *)
(***************************************************************************)
EXTENDS Integers, Sequences, FiniteSets, TLC

VARIABLES
    socks,                \* every WebSocket created so far: handle -> transport state
    socket,               \* this.socket: the current handle, 0 for null
    connected,            \* this.connected
    reconnectionDelay,    \* this.reconnectionDelay, as [num, den]
    timers,               \* the host's pending timeouts: records [id, delay]
    reconnectionTimeout,  \* this.reconnectionTimeout: a timer id, 0 for undefined
    nextTimer,            \* the id the host's next setTimeout returns
    trades,               \* this.trades
    exchanges,            \* this.exchanges
    delay,                \* this.delay
    delayed,              \* this.delayed (undefined, which is falsy, is FALSE)
    lastFetchUrl,         \* this.lastFetchUrl: <<from, to>>, <<>> for undefined
    inflight,             \* the HTTP requests awaiting their response
    netCalls,             \* the number of HTTP requests issued so far
    emitted,              \* the notifications the last handler emitted, in order
    called                \* the last handler that ran, with its input

vars == <<socks, socket, connected, reconnectionDelay, timers, reconnectionTimeout,
          nextTimer, trades, exchanges, delay, delayed, lastFetchUrl, inflight,
          netCalls, emitted, called>>

connVars == <<socks, socket, connected, reconnectionDelay, timers,
              reconnectionTimeout, nextTimer>>

feedVars == <<trades, exchanges, delay, delayed>>

fetchVars == <<lastFetchUrl, inflight, netCalls>>

(***************************************************************************)
(* Bounds of the model.                                                    *)
(***************************************************************************)
MaxSockets == 3
MaxTimers == 4
MaxTrades == 3
MaxBatch == 2
MaxFetches == 3

(***************************************************************************)
(* Program constants.                                                      *)
(***************************************************************************)
InitialDelay == 2000
WarmDelay == 5000
SkewLimit == 2000

(***************************************************************************)
(* The transport.  A WebSocket is connecting, open, closing, errored (the  *)
(* connection has failed: readyState is CLOSED, the error event has been   *)
(* dispatched and the close event follows in the same task) or closed.     *)
(***************************************************************************)
ReadyState(st) ==
    CASE st = "connecting" -> 0
      [] st = "open" -> 1
      [] st = "closing" -> 2
      [] OTHER -> 3

\* No close event is waiting behind an error event: the host may run another task.
Idle == \A s \in DOMAIN socks : socks[s] # "errored"

Active == {s \in DOMAIN socks : socks[s] \in {"connecting", "open"}}

(***************************************************************************)
(* connect()                                                               *)
(***************************************************************************)
\* `this.socket && this.socket.readyState === 1`: connect() returns at once.
ConnectNoop == socket # 0 /\ ReadyState(socks[socket]) = 1

ConnectBody ==
    IF ConnectNoop
    THEN UNCHANGED <<socks, socket>>
    ELSE /\ Len(socks) < MaxSockets
         /\ socks' = Append(socks, "connecting")
         /\ socket' = Len(socks) + 1

Connect ==
    /\ Idle
    /\ ConnectBody
    /\ called' = <<"connect">>
    /\ emitted' = <<>>
    /\ UNCHANGED <<connected, reconnectionDelay, timers, reconnectionTimeout, nextTimer>>
    /\ UNCHANGED <<feedVars, fetchVars>>

(***************************************************************************)
(* reconnect()                                                             *)
(***************************************************************************)
RECURSIVE Gcd(_, _)
Gcd(a, b) == IF b = 0 THEN a ELSE Gcd(b, a % b)

\* The rational d * n / m, in lowest terms.
Times(d, n, m) ==
    LET g == Gcd(d.num * n, d.den * m)
    IN  [num |-> (d.num * n) \div g, den |-> (d.den * m) \div g]

GrowNot(d) == d

\* `this.reconnectionDelay *= 1.1`
Grow(d) == Times(d, 11, 10)

ClearTimeoutNot(ts, id) == ts

\* clearTimeout(id): the pending timer of that id, if any, is cancelled.
ClearTimeout(ts, id) == {t \in ts : t.id # id}

ReconnectNoopAnySocket(ss) == socket # 0

\* `this.socket && this.socket.readyState === 1`: reconnect() returns at once.
\* ss is the transport state when reconnect() runs: a close or error handler
\* runs after the readyState of its handle has changed.
ReconnectNoop(ss) == socket # 0 /\ ReadyState(ss[socket]) = 1

ReconnectBody(ss) ==
    IF ReconnectNoop(ss)
    THEN UNCHANGED <<timers, reconnectionTimeout, nextTimer, reconnectionDelay>>
    ELSE /\ nextTimer <= MaxTimers
         /\ timers' = ClearTimeout(timers, reconnectionTimeout)
                         \cup {[id |-> nextTimer, delay |-> reconnectionDelay]}
         /\ reconnectionTimeout' = nextTimer
         /\ nextTimer' = nextTimer + 1
         /\ reconnectionDelay' = Grow(reconnectionDelay)

Reconnect ==
    /\ Idle
    /\ ReconnectBody(socks)
    /\ called' = <<"reconnect">>
    /\ emitted' = <<>>
    /\ UNCHANGED <<socks, socket, connected>>
    /\ UNCHANGED <<feedVars, fetchVars>>

\* The reconnect timer fires: the host runs connect() and the timer is gone.
TimerFire ==
    /\ Idle
    /\ \E t \in timers :
          /\ timers' = timers \ {t}
          /\ called' = <<"timer", t.id>>
    /\ ConnectBody
    /\ emitted' = <<>>
    /\ UNCHANGED <<connected, reconnectionDelay, reconnectionTimeout, nextTimer>>
    /\ UNCHANGED <<feedVars, fetchVars>>

(***************************************************************************)
(* disconnect(): `this.socket && this.socket.close()`.  close() starts the *)
(* closing handshake of a connecting or open WebSocket and does nothing to *)
(* one that is closing or closed.                                          *)
(***************************************************************************)
DisconnectReset ==
    /\ Idle
    /\ IF socket # 0 /\ socks[socket] \in {"connecting", "open"}
       THEN socks' = [socks EXCEPT ![socket] = "closing"]
       ELSE UNCHANGED socks
    /\ called' = <<"disconnect">>
    /\ emitted' = <<>>
    /\ trades' = <<>>
    /\ exchanges' = <<>>
    /\ UNCHANGED <<socket, connected, reconnectionDelay, timers, reconnectionTimeout,
                   nextTimer>>
    /\ UNCHANGED <<delay, delayed, fetchVars>>

Disconnect ==
    /\ Idle
    /\ IF socket # 0 /\ socks[socket] \in {"connecting", "open"}
       THEN socks' = [socks EXCEPT ![socket] = "closing"]
       ELSE UNCHANGED socks
    /\ called' = <<"disconnect">>
    /\ emitted' = <<>>
    /\ UNCHANGED <<socket, connected, reconnectionDelay, timers, reconnectionTimeout,
                   nextTimer>>
    /\ UNCHANGED <<feedVars, fetchVars>>

(***************************************************************************)
(* The handlers connect() attaches to the WebSocket it creates.  They stay *)
(* attached to a handle after this.socket has moved on to a newer one.     *)
(***************************************************************************)
OnOpen(s) ==
    /\ Idle
    /\ socks[s] = "connecting"
    /\ socks' = [socks EXCEPT ![s] = "open"]
    /\ connected' = TRUE
    /\ emitted' = << <<"connected">>, <<"price", "???", "neutral">> >>
    /\ reconnectionDelay' = [num |-> WarmDelay, den |-> 1]
    /\ called' = <<"open", s>>
    /\ UNCHANGED <<socket, timers, reconnectionTimeout, nextTimer>>
    /\ UNCHANGED <<feedVars, fetchVars>>

\* The close event: of a clean close, or the one that follows the error event.
OnClose(s) ==
    /\ socks[s] \in {"open", "closing", "errored"}
    /\ socks[s] # "errored" => Idle
    /\ socks' = [socks EXCEPT ![s] = "closed"]
    /\ IF connected
       THEN /\ connected' = FALSE
            /\ emitted' = << <<"alert", "server_status", "error", "Connection lost">>,
                             <<"disconnected">> >>
       ELSE /\ UNCHANGED connected
            /\ emitted' = <<>>
    /\ ReconnectBody(socks')
    /\ called' = <<"close", s>>
    /\ UNCHANGED socket
    /\ UNCHANGED <<feedVars, fetchVars>>

\* The error event: the connection has failed, so readyState is already CLOSED.
OnError(s) ==
    /\ Idle
    /\ nextTimer < MaxTimers    \* bound: room for the close event's reconnect()
    /\ socks[s] \in {"connecting", "open", "closing"}
    /\ socks' = [socks EXCEPT ![s] = "errored"]
    /\ emitted' = << <<"alert", "server_status", "error", "Couldn't reach the server">>,
                     <<"error">> >>
    /\ ReconnectBody(socks')
    /\ called' = <<"error", s>>
    /\ UNCHANGED <<socket, connected>>
    /\ UNCHANGED <<feedVars, fetchVars>>

(***************************************************************************)
(* The connection life cycle on its own.                                   *)
(***************************************************************************)
Init ==
    /\ socks = <<>>
    /\ socket = 0
    /\ connected = FALSE
    /\ reconnectionDelay = [num |-> InitialDelay, den |-> 1]
    /\ timers = {}
    /\ reconnectionTimeout = 0
    /\ nextTimer = 1
    /\ trades = <<>>
    /\ exchanges = <<>>
    /\ delay = 0
    /\ delayed = FALSE
    /\ lastFetchUrl = <<>>
    /\ inflight = {}
    /\ netCalls = 0
    /\ emitted = <<>>
    /\ called = <<"created">>

NextConn ==
    \/ Connect
    \/ Disconnect
    \/ Reconnect
    \/ TimerFire
    \/ \E s \in DOMAIN socks : OnOpen(s)
    \/ \E s \in DOMAIN socks : OnClose(s)
    \/ \E s \in DOMAIN socks : OnError(s)

SpecConn == Init /\ [][NextConn]_vars

\* The close event that follows an error event is dispatched in the same task.
CloseAfterError == \E s \in DOMAIN socks : socks[s] = "errored" /\ OnClose(s)

\* The host fires a pending timer, and completes the task an error event began.
SpecConnFair == SpecConn /\ WF_vars(TimerFire) /\ WF_vars(CloseAfterError)

(***************************************************************************)
(* The inputs of the feed: the frames the server sends, the responses of   *)
(* the history endpoint, the local clock and the arguments of the calls.   *)
(***************************************************************************)
\* The trades on the wire, <<exchange, timestamp in ms>>: three instants, one
\* of them with a trade on each of two exchanges.
WireTrades == {<<"bitmex", 100>>, <<"okex", 100>>, <<"bitmex", 200>>, <<"bitmex", 300>>}

SeqsUpTo(S, n) == UNION {[1..k -> S] : k \in 0..n}

Ts(trade) == trade[2]

IsSorted(seq) == \A i \in 1..(Len(seq) - 1) : Ts(seq[i]) <= Ts(seq[i + 1])

\* A batch frame is a non-empty array of trades, in any order.
LiveBatches == SeqsUpTo(WireTrades, MaxBatch) \ {<<>>}

\* The history endpoint answers with trades in ascending order of time.
HistoryBatches == {b \in SeqsUpTo(WireTrades, MaxBatch) : IsSorted(b)}

\* The values of +new Date() the model draws.
Nows == {10000}

\* data.timestamp of a welcome frame; 0 is a frame without a timestamp.
ServerStamps == {0, 5000, 12000, 15000}

\* data.exchanges of a welcome frame: records [id, connected].
ExchangeLists ==
    { <<>>,
      << [id |-> "bitmex", connected |-> TRUE], [id |-> "okex", connected |-> FALSE] >>,
      << [id |-> "okex", connected |-> TRUE], [id |-> "bitmex", connected |-> TRUE] >>,
      << [id |-> "bitmex", connected |-> TRUE], [id |-> "bitmex", connected |-> TRUE] >> }

Pairs == {"BTCUSD"}

\* The cut-offs trim() is called with.
Cutoffs == {200, 400}

\* The arguments of fetch(): `to` 0 is the call without `to`.
FetchFroms == {1}
FetchTos == {0, 3}

(***************************************************************************)
(* Helpers of the handlers.                                                *)
(***************************************************************************)
Abs(x) == IF x < 0 THEN -x ELSE x

\* b with trade t inserted after the last trade that is not later than t.
InsertByTs(b, t) ==
    LET k == Cardinality({i \in DOMAIN b : Ts(b[i]) <= Ts(t)})
    IN  SubSeq(b, 1, k) \o <<t>> \o SubSeq(b, k + 1, Len(b))

RECURSIVE SortByTs(_)
SortUnsorted(b) == b

\* `data.sort((a, b) => a[1] - b[1])`: a stable sort by timestamp.
SortByTs(b) ==
    IF b = <<>> THEN <<>>
    ELSE InsertByTs(SortByTs(SubSeq(b, 1, Len(b) - 1)), b[Len(b)])

\* `for (...) data[i][1] -= this.delay`
Shift(b, d) == [i \in DOMAIN b |-> <<b[i][1], b[i][2] - d>>]

\* `if (this.delayed) { ... data[i][1] -= this.delay }`
Correct(b) == IF delayed THEN Shift(b, delay) ELSE b

(***************************************************************************)
(* socket.onmessage, a batch frame: a non-empty array of trades.           *)
(***************************************************************************)
OnBatch(s, data) ==
    /\ Idle
    /\ socks[s] \in {"open", "closing"}
    /\ Len(trades) + Len(data) <= MaxTrades
    /\ LET batch == Correct(SortByTs(data))
       IN  /\ trades' = trades \o batch
           /\ emitted' = << <<"trades", batch>> >>
    /\ called' = <<"batch", data>>
    /\ UNCHANGED <<exchanges, delay, delayed>>
    /\ UNCHANGED <<connVars, fetchVars>>

(***************************************************************************)
(* socket.onmessage, the welcome frame.                                    *)
(***************************************************************************)
ComputeOffsetNoAbs(timestamp, now) ==
    LET d == IF timestamp # 0 THEN timestamp - now ELSE 0
    IN  [delay |-> d, delayed |-> d > SkewLimit]

\* `this.delay = data.timestamp ? data.timestamp - +new Date() : 0`
\* `this.delayed = Math.abs(this.delay) > 2000`
ComputeOffset(timestamp, now) ==
    LET d == IF timestamp # 0 THEN timestamp - now ELSE 0
    IN  [delay |-> d, delayed |-> Abs(d) > SkewLimit]

\* `data.exchanges.filter(exchange => exchange.connected).map(exchange => exchange.id)`
ConnectedIds(list) ==
    LET kept == SelectSeq(list, LAMBDA e : e.connected)
    IN  [i \in DOMAIN kept |-> kept[i].id]

OnWelcome(s, data, now) ==
    /\ Idle
    /\ socks[s] \in {"open", "closing"}
    /\ exchanges' = ConnectedIds(data.exchanges)
    /\ delay' = ComputeOffset(data.timestamp, now).delay
    /\ delayed' = ComputeOffset(data.timestamp, now).delayed
    /\ emitted' = << <<"welcome", data>> >>
                   \o (IF data.admin THEN << <<"admin">> >> ELSE <<>>)
                   \o << <<"exchanges", exchanges'>>,
                         <<"pair", data.pair, TRUE>>,
                         <<"alert", "server_status", "info",
                           IF exchanges' = <<>> THEN <<"No connected exchanges">>
                                                ELSE <<"On">> \o exchanges'>> >>
    /\ called' = <<"welcome", data.timestamp, now>>
    /\ UNCHANGED trades
    /\ UNCHANGED <<connVars, fetchVars>>

WelcomeFrames ==
    [pair : Pairs, exchanges : ExchangeLists, timestamp : ServerStamps, admin : BOOLEAN]

(***************************************************************************)
(* fetch(from, to, willReplace)                                            *)
(***************************************************************************)
\* The request of a call: its URL, `${http_url}/history/${from}/${to}`, is the
\* pair <<from, to>> (the arguments are integers, which parseInt leaves as they
\* are), and whether its response replaces the buffer.
FetchRequest(from, to, willReplace, now) ==
    IF to = 0
    THEN [url |-> <<now - from * 1000 * 60, now>>, replace |-> TRUE]
    ELSE [url |-> <<from, to>>, replace |-> willReplace]

IsDuplicateNever(url) == FALSE

IsDuplicateInflight(url) == \E r \in inflight : r.url = url

\* `this.lastFetchUrl === url`
IsDuplicate(url) == lastFetchUrl = url

FetchCall(from, to, willReplace, now) ==
    LET req == FetchRequest(from, to, willReplace, now)
    IN  /\ Idle
        /\ IF IsDuplicate(req.url)
           THEN /\ UNCHANGED fetchVars
                /\ called' = <<"fetch", req.url, "resolved">>
           ELSE /\ netCalls < MaxFetches
                /\ lastFetchUrl' = req.url
                /\ netCalls' = netCalls + 1
                /\ inflight' = inflight \cup
                      {[id |-> netCalls + 1, url |-> req.url, replace |-> req.replace]}
                /\ called' = <<"fetch", req.url, "requested">>
        /\ emitted' = <<>>
        /\ UNCHANGED <<connVars, feedVars>>

MergeNoDiscard(buf, batch, willReplace) ==
    IF willReplace \/ buf = <<>> THEN batch ELSE buf \o batch

\* The buffer after a response: replaced, or the batch merged at its two ends.
MergeHistorical(buf, batch, willReplace) ==
    IF willReplace \/ buf = <<>>
    THEN batch
    ELSE LET prepend == SelectSeq(batch, LAMBDA t : Ts(t) <= Ts(buf[1]))
             append == SelectSeq(batch, LAMBDA t : Ts(t) >= Ts(buf[Len(buf)]))
         IN  prepend \o buf \o append

\* The `.then` of the request: the response has arrived.
FetchResolve(r, data) ==
    /\ Idle
    /\ r \in inflight
    /\ LET merged == MergeHistorical(trades, Correct(data), r.replace)
       IN  /\ Len(merged) <= MaxTrades
           /\ trades' = merged
           /\ emitted' = IF Len(merged) # Len(trades)
                         THEN << <<"history", r.replace>> >>
                         ELSE <<>>
    /\ inflight' = inflight \ {r}
    /\ called' = <<"response", r.replace, data>>
    /\ UNCHANGED <<lastFetchUrl, netCalls>>
    /\ UNCHANGED <<exchanges, delay, delayed>>
    /\ UNCHANGED connVars

\* err.message of a failed request.
FailureMessages == {"Network Error"}

FailureAlertNoMessage(message) ==
    <<"alert", "fetch_error", "error", "Unable to retrieve history", "">>

\* The alert of the `.catch`: {type, title, message: err.message, id}.
FailureAlert(message) ==
    <<"alert", "fetch_error", "error", "Unable to retrieve history", message>>

\* The `.catch` of the request: the request has failed with error `message`;
\* the promise fetch() returned is rejected.
FetchFail(r, message) ==
    /\ Idle
    /\ r \in inflight
    /\ inflight' = inflight \ {r}
    /\ emitted' = << FailureAlert(message) >>
    /\ called' = <<"failure", r.url, message, "rejected">>
    /\ UNCHANGED <<lastFetchUrl, netCalls>>
    /\ UNCHANGED <<connVars, feedVars>>

(***************************************************************************)
(* trim(timestamp)                                                         *)
(***************************************************************************)
TrimIndexFirst(buf, timestamp) ==
    LET below == {i \in DOMAIN buf : Ts(buf[i]) < timestamp}
    IN  IF below = {} THEN 0
        ELSE CHOOSE i \in below : \A j \in below : i <= j

\* The scan from the end of the buffer for a trade before `timestamp`: the
\* 1-based position it stops at, 0 when there is none (`index < 0`).
TrimIndex(buf, timestamp) ==
    LET below == {i \in DOMAIN buf : Ts(buf[i]) < timestamp}
    IN  IF below = {} THEN 0
        ELSE CHOOSE i \in below : \A j \in below : j <= i

Trim(timestamp) ==
    /\ Idle
    /\ LET index == TrimIndex(trades, timestamp)
       IN  IF index = 0
           THEN /\ UNCHANGED trades
                /\ emitted' = <<>>
           ELSE /\ trades' = SubSeq(trades, index + 1, Len(trades))
                /\ emitted' = << <<"trim", timestamp>> >>
    /\ called' = <<"trim", timestamp>>
    /\ UNCHANGED <<exchanges, delay, delayed>>
    /\ UNCHANGED <<connVars, fetchVars>>

(***************************************************************************)
(* The feed on an established connection: connect() has been called and    *)
(* the open event handled.                                                 *)
(***************************************************************************)
InitFeed ==
    /\ socks = <<"open">>
    /\ socket = 1
    /\ connected = TRUE
    /\ reconnectionDelay = [num |-> WarmDelay, den |-> 1]
    /\ timers = {}
    /\ reconnectionTimeout = 0
    /\ nextTimer = 1
    /\ trades = <<>>
    /\ exchanges = <<>>
    /\ delay = 0
    /\ delayed = FALSE
    /\ lastFetchUrl = <<>>
    /\ inflight = {}
    /\ netCalls = 0
    /\ emitted = << <<"connected">>, <<"price", "???", "neutral">> >>
    /\ called = <<"open", 1>>

NextBuffer ==
    \/ \E data \in LiveBatches : OnBatch(1, data)
    \/ \E from \in FetchFroms, to \in FetchTos, willReplace \in BOOLEAN, now \in Nows :
          FetchCall(from, to, willReplace, now)
    \/ \E r \in inflight, data \in HistoryBatches : FetchResolve(r, data)
    \/ \E r \in inflight, message \in FailureMessages : FetchFail(r, message)
    \/ \E timestamp \in Cutoffs : Trim(timestamp)

SpecBuffer == InitFeed /\ [][NextBuffer]_vars

(***************************************************************************)
(* socket.onmessage, the other control frames.  `debug` is options.debug,  *)
(* a preference read when the frame is handled.                            *)
(***************************************************************************)
ExchangeIds == {"bitmex", "okex"}

OnPair(s, pair) ==
    /\ Idle
    /\ socks[s] \in {"open", "closing"}
    /\ emitted' = << <<"pair", pair>>, <<"alert", "pair", "info", <<"Now tracking", pair>> >> >>
    /\ called' = <<"pair", pair>>
    /\ UNCHANGED <<connVars, feedVars, fetchVars>>

AddExchangeAlways(list, id) == Append(list, id)

\* `if (this.exchanges.indexOf(data.id) === -1) this.exchanges.push(data.id)`
AddExchange(list, id) ==
    IF \A i \in DOMAIN list : list[i] # id THEN Append(list, id) ELSE list

\* `this.exchanges.indexOf(id)`, 1-based; 0 when id is not in the list.
IndexOf(list, id) ==
    IF \E i \in DOMAIN list : list[i] = id
    THEN CHOOSE i \in DOMAIN list : list[i] = id /\ \A j \in 1..(i - 1) : list[j] # id
    ELSE 0

\* splice(indexOf(id), 1) without the test: splice(-1, 1) removes the last entry.
RemoveExchangeUnchecked(list, id) ==
    LET k == IF IndexOf(list, id) = 0 THEN Len(list) ELSE IndexOf(list, id)
    IN  SubSeq(list, 1, k - 1) \o SubSeq(list, k + 1, Len(list))

\* `if (this.exchanges.indexOf(data.id) !== -1)
\*    this.exchanges.splice(this.exchanges.indexOf(data.id), 1)`
RemoveExchange(list, id) ==
    LET k == IndexOf(list, id)
    IN  IF k # 0 THEN SubSeq(list, 1, k - 1) \o SubSeq(list, k + 1, Len(list)) ELSE list

StatusAlert(debug, id, type, message) ==
    IF debug THEN << <<"alert", <<id, "status">>, type, message>> >> ELSE <<>>

OnExchangeConnected(s, id, debug) ==
    /\ Idle
    /\ socks[s] \in {"open", "closing"}
    /\ exchanges' = AddExchange(exchanges, id)
    /\ emitted' = StatusAlert(debug, id, "success", <<id, "connected">>)
                    \o << <<"exchanges", exchanges'>> >>
    /\ called' = <<"exchange_connected", id, debug>>
    /\ UNCHANGED <<trades, delay, delayed>>
    /\ UNCHANGED <<connVars, fetchVars>>

OnExchangeDisconnected(s, id, debug) ==
    /\ Idle
    /\ socks[s] \in {"open", "closing"}
    /\ exchanges' = RemoveExchange(exchanges, id)
    /\ emitted' = StatusAlert(debug, id, "error", <<id, "disconnected">>)
                    \o << <<"exchanges", exchanges'>> >>
    /\ called' = <<"exchange_disconnected", id, debug>>
    /\ UNCHANGED <<trades, delay, delayed>>
    /\ UNCHANGED <<connVars, fetchVars>>

OnExchangeError(s, id, debug) ==
    /\ Idle
    /\ socks[s] \in {"open", "closing"}
    /\ emitted' = StatusAlert(debug, id, "error", <<id, "an error occured">>)
    /\ called' = <<"exchange_error", id, debug>>
    /\ UNCHANGED <<connVars, feedVars, fetchVars>>

(***************************************************************************)
(* socket.onmessage, a payload JSON.parse rejects or parses to a falsy     *)
(* value.                                                                  *)
(***************************************************************************)
MalformedPayloads == {"", "{oops", "null", "0"}

\* JSON.parse(event.data) throws a SyntaxError.
JsonSyntaxError(text) == text \in {"", "{oops"}

\* JSON.parse(event.data) is null, 0, false or "": `!data` holds.
JsonFalsy(text) == text \in {"null", "0", "false", "\"\""}

\* The handler ends with an exception nothing catches: by JSON.parse, or by
\* `throw new Error('Unable to read socket message')`.
OnMalformed(s, text) ==
    /\ Idle
    /\ socks[s] \in {"open", "closing"}
    /\ JsonSyntaxError(text) \/ JsonFalsy(text)
    /\ emitted' = <<>>
    /\ called' = <<"malformed", text, "thrown">>
    /\ UNCHANGED <<connVars, feedVars, fetchVars>>

(***************************************************************************)
(* socket.onmessage, any other well-formed frame.  A frame is the record   *)
(* [array, items, type]: whether it is an array, its elements, and its     *)
(* `type` field ("none" without one).                                      *)
(***************************************************************************)
KnownTypes ==
    {"welcome", "pair", "exchange_connected", "exchange_disconnected", "exchange_error"}

OtherFrames ==
    { [array |-> TRUE, items |-> <<>>, type |-> "none"],
      [array |-> FALSE, items |-> <<>>, type |-> "none"],
      [array |-> FALSE, items |-> <<>>, type |-> "ping"] }

IsBatchAnyArray(frame) == frame.array

\* `Array.isArray(data) && data.length`
IsBatch(frame) == frame.array /\ frame.items # <<>>

OnOtherFrame(s, frame) ==
    /\ Idle
    /\ socks[s] \in {"open", "closing"}
    /\ IF IsBatch(frame)
       THEN LET batch == Correct(SortByTs(frame.items))
            IN  /\ trades' = trades \o batch
                /\ emitted' = << <<"trades", batch>> >>
       ELSE /\ frame.type \notin KnownTypes    \* `switch (data.type)`: no case
            /\ UNCHANGED trades
            /\ emitted' = <<>>
    /\ called' = <<"frame", frame, "returned">>
    /\ UNCHANGED <<exchanges, delay, delayed>>
    /\ UNCHANGED <<connVars, fetchVars>>

(***************************************************************************)
(* The dispatch of frames on an established connection.                    *)
(***************************************************************************)
DispatchFrames == {f \in WelcomeFrames : f.timestamp \in {0, 15000}}

NextDispatch ==
    \/ \E data \in DispatchFrames, now \in Nows : OnWelcome(1, data, now)
    \/ \E pair \in Pairs : OnPair(1, pair)
    \/ \E id \in ExchangeIds, debug \in BOOLEAN : OnExchangeConnected(1, id, debug)
    \/ \E id \in ExchangeIds, debug \in BOOLEAN : OnExchangeDisconnected(1, id, debug)
    \/ \E id \in ExchangeIds, debug \in BOOLEAN : OnExchangeError(1, id, debug)
    \/ \E text \in MalformedPayloads : OnMalformed(1, text)
    \/ \E frame \in OtherFrames : OnOtherFrame(1, frame)
    \/ OnBatch(1, << <<"bitmex", 100>> >>)

SpecDispatch == InitFeed /\ [][NextDispatch]_vars

(***************************************************************************)
(* The connection life cycle with data: frames arrive on any handle that   *)
(* is open, history is fetched and the buffer trimmed while handles open,  *)
(* fail and close.  A batch frame arrives when the buffer is empty, which  *)
(* keeps the buffer short.                                                 *)
(***************************************************************************)
LifeBatch == << <<"bitmex", 100>> >>

NextLife ==
    \/ NextConn
    \/ \E s \in DOMAIN socks : trades = <<>> /\ OnBatch(s, LifeBatch)
    \/ \E s \in DOMAIN socks : OnExchangeConnected(s, "bitmex", FALSE)
    \/ FetchCall(1, 3, FALSE, 10000)
    \/ \E r \in inflight : FetchResolve(r, LifeBatch)
    \/ Trim(200)

SpecLife == Init /\ [][NextLife]_vars

(***************************************************************************)
(* The clock offset: welcome frames, batch frames and history responses on *)
(* an established connection, with the trades of one exchange.             *)
(***************************************************************************)
ClockTrades == {<<"bitmex", 100>>, <<"bitmex", 300>>}

ClockFrames ==
    {f \in WelcomeFrames : f.exchanges = <<>> /\ ~f.admin}

NextClock ==
    \/ \E data \in LiveBatches :
          /\ \A i \in DOMAIN data : data[i] \in ClockTrades
          /\ OnBatch(1, data)
    \/ \E data \in ClockFrames, now \in Nows : OnWelcome(1, data, now)
    \/ \E from \in FetchFroms, to \in FetchTos \ {0}, willReplace \in BOOLEAN, now \in Nows :
          FetchCall(from, to, willReplace, now)
    \/ \E r \in inflight, data \in HistoryBatches :
          /\ \A i \in DOMAIN data : data[i] \in ClockTrades
          /\ FetchResolve(r, data)

SpecClock == InitFeed /\ [][NextClock]_vars

(***************************************************************************)
(* Claims about the trade buffer.                                          *)
(***************************************************************************)

\* The offset a handler subtracts from the timestamps it accepts.
Offset == IF delayed THEN delay ELSE 0

\* C1, as stated: after every batch frame and every response the buffer is in
\* non-decreasing order of timestamp.
C1_BufferSorted == IsSorted(trades)

\* C1, amended: a step keeps a buffer in non-decreasing order in that order,
\* provided that a batch frame holds no trade whose corrected timestamp is
\* before the last timestamp of the buffer.
C1_SortedIfAppendsInOrder ==
    [][ ( /\ IsSorted(trades)
          /\ (called'[1] = "batch" /\ trades # <<>>) =>
                \A i \in DOMAIN called'[2] :
                    Ts(called'[2][i]) - Offset >= Ts(trades[Len(trades)]) )
        => IsSorted(trades') ]_vars

\* A response has been merged into a buffer that batch frames had filled.
C1_Witness ==
    /\ called[1] = "response"
    /\ ~called[2]
    /\ emitted = << <<"history", FALSE>> >>
    /\ Len(trades) = 3
    /\ IsSorted(trades)

\* C2: a response merged without replacement into a non-empty buffer gives
\* (its trades at or before the buffer's first timestamp) ++ the buffer ++
\* (its trades at or after the buffer's last timestamp); no trade strictly
\* between the two is added.  Buffer [100,200,300] with [50,150,250,350]
\* gives [50,100,200,300,350].
C2_MergeBoundary ==
    /\ MergeHistorical(<< <<"a", 100>>, <<"a", 200>>, <<"a", 300>> >>,
                       << <<"b", 50>>, <<"b", 150>>, <<"b", 250>>, <<"b", 350>> >>,
                       FALSE)
         = << <<"b", 50>>, <<"a", 100>>, <<"a", 200>>, <<"a", 300>>, <<"b", 350>> >>
    /\ [][ (called'[1] = "response" /\ ~called'[2] /\ trades # <<>>) =>
             LET data == [i \in DOMAIN called'[3] |->
                            <<called'[3][i][1], called'[3][i][2] - Offset>>]
                 headTs == Ts(trades[1])
                 tailTs == Ts(trades[Len(trades)])
                 before == SelectSeq(data, LAMBDA t : Ts(t) <= headTs)
                 after == SelectSeq(data, LAMBDA t : Ts(t) >= tailTs)
                 n == Len(before)
             IN  /\ Len(trades') = n + Len(trades) + Len(after)
                 /\ SubSeq(trades', 1, n) = before
                 /\ SubSeq(trades', n + 1, n + Len(trades)) = trades
                 /\ SubSeq(trades', n + Len(trades) + 1, Len(trades')) = after
                 /\ \A i \in (1..n) \cup ((n + Len(trades) + 1)..Len(trades')) :
                       ~(headTs < Ts(trades'[i]) /\ Ts(trades'[i]) < tailTs) ]_vars

\* Buffer [100,300] has been merged with [200,300]: 200 discarded, 300 appended.
C2_Witness ==
    /\ called = <<"response", FALSE, << <<"bitmex", 200>>, <<"bitmex", 300>> >> >>
    /\ trades = << <<"bitmex", 100>>, <<"bitmex", 300>>, <<"bitmex", 300>> >>

\* The length of the longest prefix of buf whose trades are all before timestamp.
PrefixBefore(buf, timestamp) ==
    Cardinality({i \in DOMAIN buf : \A j \in 1..i : Ts(buf[j]) < timestamp})

\* What C3 says of a call trim(timestamp): exactly the longest prefix of
\* trades before `timestamp` is removed; a trim notification carrying
\* `timestamp` is emitted when a trade is removed and none otherwise.
TrimBoundary(timestamp) ==
    LET n == PrefixBefore(trades, timestamp)
    IN  /\ trades' = SubSeq(trades, n + 1, Len(trades))
        /\ emitted' = IF n > 0 THEN << <<"trim", timestamp>> >> ELSE <<>>

\* C3, as stated: every call of trim is as TrimBoundary says.
C3_TrimBoundary == [][called'[1] = "trim" => TrimBoundary(called'[2])]_vars

\* C3, amended: on a buffer in non-decreasing order of timestamp, every call
\* of trim is as TrimBoundary says.
C3_TrimBoundarySorted ==
    [][(called'[1] = "trim" /\ IsSorted(trades)) => TrimBoundary(called'[2])]_vars

\* trim(200) has removed the trades before 200 of a sorted buffer and kept the rest.
C3_Witness ==
    /\ called = <<"trim", 200>>
    /\ emitted = << <<"trim", 200>> >>
    /\ trades # <<>>
    /\ IsSorted(trades)

\* C10: a call of fetch whose URL is that of the request issued last, which
\* still awaits its response, issues no request, leaves the buffer alone,
\* emits nothing and returns a resolved promise.
C10_DuplicateFetch ==
    [][ ( /\ called'[1] = "fetch"
          /\ \E r \in inflight : r.id = netCalls /\ r.url = called'[2] )
        => ( /\ netCalls' = netCalls
             /\ inflight' = inflight
             /\ trades' = trades
             /\ emitted' = <<>>
             /\ called'[3] = "resolved" ) ]_vars

\* fetch(1, 3) has been called again while its only request is pending.
C10_Witness ==
    /\ called = <<"fetch", <<1, 3>>, "resolved">>
    /\ netCalls = 1
    /\ \E r \in inflight : r.url = <<1, 3>>

C17_FetchFailure ==
    [][ called'[1] = "failure" =>
          /\ Len(emitted') = 1
          /\ emitted'[1][1] = "alert"
          /\ emitted'[1][3] = "error"
          /\ emitted'[1][5] = called'[3]
          /\ called'[4] = "rejected"
          /\ trades' = trades ]_vars

\* A request has failed while the buffer held trades.
C17_Witness ==
    /\ called[1] = "failure"
    /\ called[3] = "Network Error"
    /\ trades # <<>>

\* C20: a response merged without replacement makes the buffer grow by at
\* most the number of trades of the response.
C20_MergeAtMostOnce ==
    [][ (called'[1] = "response" /\ ~called'[2] /\ trades # <<>>)
        => Len(trades') <= Len(trades) + Len(called'[3]) ]_vars

(***************************************************************************)
(* Claims about the clock offset.                                          *)
(***************************************************************************)

Range(seq) == {seq[i] : i \in DOMAIN seq}

Count(seq, x) == Cardinality({i \in DOMAIN seq : seq[i] = x})

\* The trades of `data` as the buffer is to store them: t - offset when
\* delayed, t otherwise.
Stored(data) == [i \in DOMAIN data |-> <<data[i][1], data[i][2] - Offset>>]

\* C9: a welcome frame with timestamp S at local time L sets the offset to
\* S - L (to 0 when the frame has no timestamp) and delayed to
\* abs(offset) > 2000; no other step changes them; and every trade a batch
\* frame or a response adds to the buffer is stored with its timestamp less
\* the offset when delayed, unchanged otherwise.
C9_ClockCorrection ==
    [][ /\ called'[1] = "welcome" =>
              /\ delay' = IF called'[2] # 0 THEN called'[2] - called'[3] ELSE 0
              /\ delayed' = (delay' > 2000 \/ delay' < -2000)
        /\ called'[1] # "welcome" => UNCHANGED <<delay, delayed>>
        /\ called'[1] = "batch" =>
              LET added == SubSeq(trades', Len(trades) + 1, Len(trades'))
                  want == Stored(called'[2])
              IN  /\ SubSeq(trades', 1, Len(trades)) = trades
                  /\ Len(added) = Len(want)
                  /\ \A x \in Range(added) \cup Range(want) :
                        Count(added, x) = Count(want, x)
        /\ called'[1] = "response" =>
              LET want == Stored(called'[3])
              IN  IF called'[2] \/ trades = <<>>
                  THEN trades' = want
                  ELSE \E n \in 0..(Len(trades') - Len(trades)) :
                          /\ SubSeq(trades', n + 1, n + Len(trades)) = trades
                          /\ \A i \in (1..n) \cup ((n + Len(trades) + 1)..Len(trades')) :
                                trades'[i] \in Range(want) ]_vars

\* After a welcome with timestamp = local time + 5000, a batch frame's trade
\* of timestamp 300 and a response's trade of timestamp 100 are in the buffer
\* as -4700 and -4900.
C9_Witness ==
    /\ delay = 5000
    /\ delayed
    /\ called[1] = "response"
    /\ trades = << <<"bitmex", -4900>>, <<"bitmex", -4700>> >>

(***************************************************************************)
(* Claims about the connection life cycle.                                 *)
(***************************************************************************)

\* C4: at most one handle created by the manager is active (connecting or
\* open, with its handlers attached) at any time.
C4_OneActiveHandle == Cardinality(Active) <= 1

\* C5: at most one reconnect timer is pending, and it is the one
\* this.reconnectionTimeout names: a new reconnect() has cancelled the timer
\* scheduled before it.
C5_SingleSlot ==
    /\ Cardinality(timers) <= 1
    /\ \A t \in timers : t.id = reconnectionTimeout

\* The close handler has rescheduled after an earlier schedule: one timer pends.
C5_Witness ==
    /\ called[1] = "close"
    /\ nextTimer >= 3
    /\ Cardinality(timers) = 1

\* C6: once disconnect() has put the current handle into its closing
\* handshake, no step other than a call of connect() or reconnect() schedules
\* a reconnect timer or opens a new connection.
C6_DisconnectStays ==
    [][ ( /\ socket # 0
          /\ socks[socket] = "closing"
          /\ called'[1] \notin {"connect", "reconnect"} )
        => ( /\ timers' \subseteq timers
             /\ Len(socks') = Len(socks) ) ]_vars

\* C7: when the current handle has closed, a reconnect timer is pending, and
\* a new connection attempt (a new handle) eventually follows.
C7_ReconnectLiveness ==
    /\ [](socket # 0 /\ socks[socket] = "closed" => timers # {})
    /\ \A n \in 0..(MaxSockets - 1) :
          (socket # 0 /\ socks[socket] = "closed" /\ Len(socks) = n)
              ~> (Len(socks) > n)

\* The timer scheduled by the close handler has fired and made a new handle.
C7_Witness ==
    /\ called[1] = "timer"
    /\ Len(socks) >= 2
    /\ socks[socket] = "connecting"
    /\ \A s \in DOMAIN socks : s # socket => socks[s] = "closed"

\* C8: the delay starts at 2000; an open sets it to 5000; a reconnect() that
\* schedules gives the timer the current delay and then multiplies the delay
\* by 1.1; a reconnect() with the current handle open changes neither the
\* delay nor the timers.
C8_BackoffGrowth ==
    /\ reconnectionDelay = [num |-> 2000, den |-> 1]
    /\ [][ /\ called'[1] = "open" => reconnectionDelay' = [num |-> 5000, den |-> 1]
           /\ called'[1] \in {"reconnect", "close", "error"} =>
                 IF socket # 0 /\ socks'[socket] = "open"
                 THEN UNCHANGED <<reconnectionDelay, timers>>
                 ELSE /\ \E t \in timers' \ timers : t.delay = reconnectionDelay
                      /\ reconnectionDelay'.num * 10 * reconnectionDelay.den
                           = reconnectionDelay.num * 11 * reconnectionDelay'.den
           /\ called'[1] \notin {"open", "reconnect", "close", "error"} =>
                 UNCHANGED reconnectionDelay ]_vars

\* The second consecutive schedule after an open waits 5000 * 1.1 = 5500 ms.
C8_Witness ==
    /\ timers = {[id |-> reconnectionTimeout, delay |-> [num |-> 5500, den |-> 1]]}
    /\ reconnectionDelay = [num |-> 6050, den |-> 1]

(***************************************************************************)
(* Claims about the dispatch of frames.                                    *)
(***************************************************************************)
NoDuplicates(list) == \A i, j \in DOMAIN list : list[i] = list[j] => i = j

\* C12: a payload that is not well-formed JSON, or is empty, is dropped
\* without raising a failure: the handler returns normally, emits nothing and
\* leaves the connection state, the buffer, the exchange set and the clock
\* offset as they were.
C12_MalformedDropped ==
    [][ called'[1] = "malformed" =>
          /\ called'[3] # "thrown"
          /\ emitted' = <<>>
          /\ UNCHANGED <<connVars, feedVars>> ]_vars

\* C13: after any sequence of control frames, whatever exchange list a welcome
\* frame reports, the exchange set holds each exchange id at most once.
C13_NoDuplicates == NoDuplicates(exchanges)

\* C14: exchange_connected for an id already in the exchange set and
\* exchange_disconnected for an id not in it leave the set as it was and still
\* emit the exchanges notification; exchange_error never changes the set.
C14_Idempotence ==
    /\ [][ (called'[1] = "exchange_connected" /\ called'[2] \in Range(exchanges))
           => /\ exchanges' = exchanges
              /\ \E i \in DOMAIN emitted' :
                    emitted'[i][1] = "exchanges" /\ emitted'[i][2] = exchanges ]_vars
    /\ [][ (called'[1] = "exchange_disconnected" /\ called'[2] \notin Range(exchanges))
           => /\ exchanges' = exchanges
              /\ \E i \in DOMAIN emitted' :
                    emitted'[i][1] = "exchanges" /\ emitted'[i][2] = exchanges ]_vars
    /\ [][ called'[1] = "exchange_error" => exchanges' = exchanges ]_vars

\* bitmex is ahead of okex, so this exchange_connected for bitmex found it in
\* the set.
C14_Witness ==
    /\ called[1] = "exchange_connected"
    /\ called[2] = "bitmex"
    /\ exchanges = <<"bitmex", "okex">>

\* C15: a well-formed frame that is neither a non-empty array nor an object
\* of a recognised type changes no state and emits nothing; the handler returns
\* normally.
C15_UnrecognisedDropped ==
    [][ (called'[1] = "frame"
           /\ ~(called'[2].array /\ called'[2].items # <<>>)
           /\ called'[2].type \notin KnownTypes)
        => /\ UNCHANGED <<connVars, feedVars>>
           /\ emitted' = <<>>
           /\ called'[3] = "returned" ]_vars

C15_Witness ==
    /\ called[1] = "frame"
    /\ called[2].array
    /\ trades # <<>>
    /\ exchanges # <<>>

(***************************************************************************)
(* Claims about data across the connection life cycle.                     *)
(***************************************************************************)
LifecycleEvents == {"connect", "open", "close", "error", "disconnect", "reconnect", "timer"}

\* C16: open, close and error events, disconnect(), reconnect(), connect()
\* and reconnect-timer firings leave the trade buffer and the exchange set as
\* they were, and the buffer changes only in a batch frame, a fetch completion
\* or a trim.
C16_LifecycleKeepsData ==
    /\ [][ called'[1] \in LifecycleEvents => UNCHANGED <<trades, exchanges>> ]_vars
    /\ [][ trades' # trades => called'[1] \in {"batch", "response", "trim"} ]_vars

C16_Witness ==
    /\ called[1] = "disconnect"
    /\ socket # 0
    /\ socks[socket] = "closing"
    /\ trades # <<>>
    /\ exchanges # <<>>

(***************************************************************************)
(* Claims about the connected flag.                                        *)
(***************************************************************************)
\* C18: in every reachable state the connected flag agrees with the handle
\* this.socket holds: the flag is set only while that handle is open (or is
\* still closing, its close event not yet handled), and it is set whenever that
\* handle is open, also when events of a superseded handle arrive late.
C18_FlagAgreesWithHandle ==
    /\ connected => socket # 0 /\ socks[socket] \in {"open", "closing", "errored"}
    /\ (socket # 0 /\ socks[socket] = "open") => connected

Emits(notifications, name) == \E i \in DOMAIN notifications : notifications[i][1] = name

\* C19: connected and disconnected notifications alternate, starting with
\* connected.  The flag is set by every connected notification and cleared by
\* every disconnected one, so it tells whether a connected notification is
\* unmatched: connected is emitted only when none is, disconnected only when one
\* is.
C19_Alternation ==
    /\ [][ Emits(emitted', "connected") => ~connected ]_vars
    /\ [][ Emits(emitted', "disconnected") => connected ]_vars

====
